---- MODULE Spec2Model ----
(***************************************************************************)
(* A model of tracktagger.py: the two passes over a trackinfo manifest     *)
(* (input resolution with archive expansion, then the metadata parser),    *)
(* the padding calculator, the track and cover mappers, the output path    *)
(* generator and the two-phase worker-pool pipeline run by main().         *)
(*                                                                         *)
(* Text is a sequence of tokens.  A token is a string that the program     *)
(* never looks inside: a single digit, a single blank, the separator "/",  *)
(* a file extension such as ".flac", or a word.                            *)
(***************************************************************************)
EXTENDS Integers, Sequences, FiniteSets, TLC

\* ------------------------------------------------------------------ bounds
\* Longest manifest (number of lines) the model reads.
MaxLines == 3

\* Lines that follow the opening lines of a scenario manifest.
MaxExtra == 2

\* ------------------------------------------------------- program constants
ARCHIVE_EXTS == {".zip", ".rar", ".7z"}
UNKNOWN_ALBUM_NAME == <<"UnknownAlbum">>
TRACKINFO_STANDARD_KEYS ==
    {"INPUT", "TITLE", "ARTIST", "LYRICIST", "COMPOSER", "ARRANGER", "ALBUM",
     "DISCNUMBER", "GENRE", "DATE", "LABEL", "COMMENT", "COVER"}
\* truncate_filename's default byte budget
max_bytes == 255

\* --------------------------------------------------------- text primitives
Digits == {"0", "1", "2", "3", "4", "5", "6", "7", "8", "9"}
Blank == " "
Sep == "/"

DigitVal(c) ==
    CASE c = "0" -> 0 [] c = "1" -> 1 [] c = "2" -> 2 [] c = "3" -> 3
      [] c = "4" -> 4 [] c = "5" -> 5 [] c = "6" -> 6 [] c = "7" -> 7
      [] c = "8" -> 8 [] c = "9" -> 9

DigitTok(d) ==
    CASE d = 0 -> "0" [] d = 1 -> "1" [] d = 2 -> "2" [] d = 3 -> "3"
      [] d = 4 -> "4" [] d = 5 -> "5" [] d = 6 -> "6" [] d = 7 -> "7"
      [] d = 8 -> "8" [] d = 9 -> "9"

\* str.isdigit(): non-empty and every character a digit
isdigit(s) == Len(s) > 0 /\ \A k \in 1..Len(s) : s[k] \in Digits

\* int(s) for a digit string
RECURSIVE int(_)
int(s) == IF Len(s) = 0 THEN 0
          ELSE 10 * int(SubSeq(s, 1, Len(s) - 1)) + DigitVal(s[Len(s)])

\* str(n) for n >= 0
RECURSIVE str(_)
str(n) == IF n < 10 THEN <<DigitTok(n)>>
          ELSE str(n \div 10) \o <<DigitTok(n % 10)>>

\* a zfill that pads nothing
zfillNone(s, width) == s

\* str.zfill(width)
RECURSIVE zfill(_, _)
zfill(s, width) == IF Len(s) >= width THEN s ELSE zfill(<<"0">> \o s, width)

\* str.replace(a, b) for single-token a and b
replace(s, a, b) == [k \in 1..Len(s) |-> IF s[k] = a THEN b ELSE s[k]]

\* str.rstrip() and str.strip()
RECURSIVE rstrip(_)
rstrip(s) == IF Len(s) > 0 /\ s[Len(s)] = Blank
             THEN rstrip(SubSeq(s, 1, Len(s) - 1)) ELSE s

RECURSIVE lstrip(_)
lstrip(s) == IF Len(s) > 0 /\ s[1] = Blank THEN lstrip(Tail(s)) ELSE s

strip(s) == lstrip(rstrip(s))

\* str.upper() / str.lower() on the words and extensions the model uses
upper(k) ==
    CASE k = "title" -> "TITLE" [] k = "input" -> "INPUT"
      [] k = "album" -> "ALBUM" [] OTHER -> k

lower(k) ==
    CASE k = ".ZIP" -> ".zip" [] k = ".FLAC" -> ".flac" [] OTHER -> k

\* ------------------------------------------------------------------ paths
\* A path is text in pathlib's normal form: an absolute path is the anchor
\* "/" followed by its segments joined by "/", the empty path is <<>>.
RECURSIVE SplitAcc(_, _, _)
SplitAcc(s, cur, acc) ==
    IF Len(s) = 0 THEN (IF cur = <<>> THEN acc ELSE Append(acc, cur))
    ELSE IF s[1] = Sep
         THEN SplitAcc(Tail(s), <<>>, IF cur = <<>> THEN acc ELSE Append(acc, cur))
         ELSE SplitAcc(Tail(s), Append(cur, s[1]), acc)

is_absolute(p) == Len(p) > 0 /\ p[1] = Sep

\* Path.parts: the anchor (if any) and then the segments
parts(p) == (IF is_absolute(p) THEN << <<Sep>> >> ELSE <<>>) \o SplitAcc(p, <<>>, <<>>)

Join2(a, seg) ==
    IF a = <<>> \/ seg = <<Sep>> THEN seg
    ELSE IF a = <<Sep>> THEN a \o seg
    ELSE a \o <<Sep>> \o seg

\* Path(*parts)
RECURSIVE FromParts(_)
FromParts(ps) ==
    IF Len(ps) = 0 THEN <<>>
    ELSE Join2(FromParts(SubSeq(ps, 1, Len(ps) - 1)), ps[Len(ps)])

\* Path(text)
Path(s) == FromParts(parts(s))

\* a / b
PathJoin(a, b) == IF is_absolute(b) THEN Path(b) ELSE FromParts(parts(a) \o parts(b))

\* Path.resolve() of an absolute path; the modelled tree has no symbolic
\* links and no ".." segments, so only the normal form is left to compute
resolve(p) == Path(p)

\* Path.name and Path.suffix
name(p) == IF Len(parts(p)) = 0 \/ parts(p) = << <<Sep>> >> THEN <<>>
           ELSE parts(p)[Len(parts(p))]

ExtTokens == {".zip", ".rar", ".7z", ".ZIP", ".flac", ".FLAC", ".jpg", ".tar"}

suffix(p) == LET nm == name(p)
             IN  IF Len(nm) >= 2 /\ nm[Len(nm)] \in ExtTokens
                 THEN nm[Len(nm)] ELSE ""

\* ------------------------------------------------------------ file system
\* The tree the run starts in.  The manifest is /trackinfo, so that
\* path.parent is the root; /out is the output directory and /w the run's
\* TemporaryDirectory.  An archive file has a content root (FsArchRoot).
TRACKINFO_PARENT == <<Sep>>
OUT_DIR == <<Sep, "out">>
WORK_DIR == <<Sep, "w">>

FsKind ==
    [root |-> "dir", d_dir |-> "dir", d_out |-> "dir", d_w |-> "dir",
     f_azip |-> "file", r_azip |-> "dir", d_in |-> "dir",
     f_inner |-> "file", r_inner |-> "dir", f_audio |-> "file",
     f_other |-> "file"]

FsChildren ==
    [root |-> {<< <<"dir">>, "d_dir" >>, << <<"a", ".zip">>, "f_azip" >>,
               << <<"out">>, "d_out" >>, << <<"w">>, "d_w" >>,
               << <<"trackinfo">>, "f_other" >>,
               << <<"c", ".flac">>, "f_audio" >>},
     d_dir |-> {<< <<"0", "0", ".flac">>, "f_audio" >>,
                << <<"0", "1", " ", "x", ".flac">>, "f_audio" >>,
                << <<"v", "2", "-", "9", ".FLAC">>, "f_audio" >>,
                << <<"n", "o", "t", "e">>, "f_other" >>},
     d_out |-> {}, d_w |-> {},
     f_azip |-> {}, f_inner |-> {}, f_audio |-> {}, f_other |-> {},
     r_azip |-> {<< <<"in">>, "d_in" >>},
     d_in |-> {<< <<"1", "0", ".flac">>, "f_audio" >>,
               << <<"inner", ".zip">>, "f_inner" >>},
     r_inner |-> {<< <<"0", "1", ".flac">>, "f_audio" >>,
                  << <<"0", "2", ".flac">>, "f_audio" >>}]

FsArchRoot == [f_azip |-> "r_azip", f_inner |-> "r_inner"]

NoNode == "none"

\* mkdtemp(dir=out_dir): the k-th container directory of the run
ContainerName(k) == <<"x">> \o str(k)

\* The entry called nm in directory node, given the archives extracted so
\* far (extracted[k] is the archive file whose content fills container k)
ChildOf(node, nm, extracted) ==
    IF node = NoNode THEN NoNode
    ELSE IF node = "d_w"
    THEN IF \E k \in 1..Len(extracted) : nm = ContainerName(k)
         THEN FsArchRoot[extracted[CHOOSE k \in 1..Len(extracted) : nm = ContainerName(k)]]
         ELSE NoNode
    ELSE IF \E c \in FsChildren[node] : c[1] = nm
         THEN (CHOOSE c \in FsChildren[node] : c[1] = nm)[2]
         ELSE NoNode

RECURSIVE WalkFrom(_, _, _)
WalkFrom(node, segs, extracted) ==
    IF Len(segs) = 0 THEN node
    ELSE WalkFrom(ChildOf(node, segs[1], extracted), Tail(segs), extracted)

\* the node an absolute path names, or NoNode
NodeAt(p, extracted) == WalkFrom("root", Tail(parts(p)), extracted)

is_file(p, extracted) ==
    NodeAt(p, extracted) # NoNode /\ FsKind[NodeAt(p, extracted)] = "file"
is_dir(p, extracted) ==
    NodeAt(p, extracted) # NoNode /\ FsKind[NodeAt(p, extracted)] = "dir"

\* Path.iterdir(): the names in a directory
iterdir(p, extracted) ==
    LET node == NodeAt(p, extracted)
    IN  IF node = "d_w" THEN {ContainerName(k) : k \in 1..Len(extracted)}
        ELSE {c[1] : c \in FsChildren[node]}

\* ---------------------------------------------------------------- manifest
\* A line of the manifest: form "kv" is KEY=VALUE or KEY[idx]=VALUE with
\* idx = NoIdx when there are no brackets, "blank" is a line of white space
\* only, "junk" is text without "=".  value is the raw text after "=".
NoIdx == 0 - 1

KV(k, i, v) == [form |-> "kv", key |-> k, idx |-> i, value |-> v]
BlankLine == [form |-> "blank", key |-> "", idx |-> NoIdx, value |-> <<>>]
JunkLine == [form |-> "junk", key |-> "", idx |-> NoIdx, value |-> <<"x">>]

\* a pattern that lets every line through
TRACKINFO_RE_AnyLine(line) == line.form # "blank"

\* TRACKINFO_RE.fullmatch(line): letters, optional [digits], "=", anything
TRACKINFO_RE(line) == line.form = "kv" /\ line.key # ""

\* INPUT_TRACKINFO_RE.fullmatch(line.rstrip()): the key INPUT in any case
INPUT_TRACKINFO_RE(line) == line.form = "kv" /\ upper(line.key) = "INPUT"

\* ------------------------------------------------------- archive resolver
\* expand_archive(path, out_dir): a new container directory under the work
\* directory filled with the archive's content.  st.failAt is the number of
\* the extraction whose extractor fails in this run (0: none does).
expand_archive(stub, st) ==
    LET k == Len(st.extracted) + 1
    IN  IF k = st.failAt
        THEN [st EXCEPT !.failed = TRUE]
        ELSE [st EXCEPT !.extracted = Append(@, NodeAt(stub, st.extracted))]

\* the heads loop without the step into an archive's only directory
RECURSIVE ExpandHeadsNoCollapse(_, _, _, _)
ExpandHeadsNoCollapse(heads, paths, parent, acc) ==
    IF heads = {} \/ acc.st.failed THEN acc
    ELSE
      LET head == CHOOSE h \in heads : TRUE
          tails == {Tail(q) : q \in {r \in paths : r[1] = head}}
          stub == PathJoin(parent, head)
          isArch == is_file(stub, acc.st.extracted)
                    /\ lower(suffix(stub)) \in ARCHIVE_EXTS
          st2 == IF isArch THEN expand_archive(stub, acc.st) ELSE acc.st
          real == IF ~isArch THEN stub
                  ELSE PathJoin(WORK_DIR, ContainerName(Len(st2.extracted)))
      IN  ExpandHeadsNoCollapse(heads \ {head}, paths, parent,
              [nodes |-> acc.nodes \cup {<<stub, real, tails>>}, st |-> st2])

\* lines 134-144: one (stub, real_path, tails) per distinct head
RECURSIVE ExpandHeads(_, _, _, _)
ExpandHeads(heads, paths, parent, acc) ==
    IF heads = {} \/ acc.st.failed THEN acc
    ELSE
      LET head == CHOOSE h \in heads : TRUE
          tails == {Tail(q) : q \in {r \in paths : r[1] = head}}
          stub == PathJoin(parent, head)
          isArch == is_file(stub, acc.st.extracted)
                    /\ lower(suffix(stub)) \in ARCHIVE_EXTS
          st2 == IF isArch THEN expand_archive(stub, acc.st) ELSE acc.st
          archive_path == PathJoin(WORK_DIR, ContainerName(Len(st2.extracted)))
          archive_files == iterdir(archive_path, st2.extracted)
          real ==
            IF ~isArch THEN stub
            ELSE IF st2.failed THEN archive_path
            ELSE IF Cardinality(archive_files) = 1
                    /\ \A f \in archive_files :
                          is_dir(PathJoin(archive_path, f), st2.extracted)
                 THEN PathJoin(archive_path, CHOOSE f \in archive_files : TRUE)
                 ELSE archive_path
      IN  ExpandHeads(heads \ {head}, paths, parent,
              [nodes |-> acc.nodes \cup {<<stub, real, tails>>}, st |-> st2])

\* expand_archives_in_tree(paths, tmp_dir, parent): paths is a set of
\* sequences of path parts; the result is the set of (key, location) pairs
\* of the returned dict and the extraction state
RECURSIVE expand_archives_in_tree(_, _, _)
RECURSIVE ExpandNodes(_, _)
ExpandNodes(nodes, acc) ==
    IF nodes = {} \/ acc.st.failed THEN acc
    ELSE
      LET nd == CHOOSE n \in nodes : TRUE
          stub == nd[1]
          real_path == nd[2]
          tails == nd[3]
          last == parts(stub)[Len(parts(stub))]
          here == IF <<>> \in tails THEN {<<last, real_path>>} ELSE {}
          rest == tails \ {<<>>}
          sub == IF rest # {}
                 THEN expand_archives_in_tree(rest, real_path, acc.st)
                 ELSE [ret |-> {}, st |-> acc.st]
          below == {<<Join2(last, e[1]), e[2]>> : e \in sub.ret}
      IN  ExpandNodes(nodes \ {nd},
              [ret |-> acc.ret \cup here \cup below, st |-> sub.st])

\* a resolver that takes the paths one at a time, never grouping those with
\* a common head
RECURSIVE expand_archives_per_path(_, _, _)
expand_archives_per_path(paths, parent, st) ==
    IF paths = {} \/ st.failed THEN [ret |-> {}, st |-> st]
    ELSE LET q == CHOOSE r \in paths : TRUE
             hd == ExpandHeads({q[1]}, {q}, parent, [nodes |-> {}, st |-> st])
             one == ExpandNodes(hd.nodes, [ret |-> {}, st |-> hd.st])
             rest == expand_archives_per_path(paths \ {q}, parent, one.st)
         IN  [ret |-> one.ret \cup rest.ret, st |-> rest.st]

expand_archives_in_tree(paths, parent, st) ==
    LET new_nodes == ExpandHeads({q[1] : q \in paths}, paths, parent,
                                 [nodes |-> {}, st |-> st])
    IN  ExpandNodes(new_nodes.nodes, [ret |-> {}, st |-> new_nodes.st])

\* resolve_trackinfo_inputs(path, tmp_dir): the inputs named by INPUT lines
trackinfo_inputs(lines) ==
    {resolve(IF is_absolute(Path(rstrip(lines[k].value)))
             THEN Path(rstrip(lines[k].value))
             ELSE PathJoin(TRACKINFO_PARENT, Path(rstrip(lines[k].value)))) :
        k \in {j \in 1..Len(lines) : INPUT_TRACKINFO_RE(lines[j])}}

resolve_trackinfo_inputs(lines, failAt) ==
    expand_archives_in_tree({parts(q) : q \in trackinfo_inputs(lines)}, <<>>,
                            [extracted |-> <<>>, failAt |-> failAt, failed |-> FALSE])

\* the dict of (key, location) pairs as a function
AsMap(pairs) == [k \in {e[1] : e \in pairs} |-> (CHOOSE e \in pairs : e[1] = k)[2]]

\* ------------------------------------------------------------------ values
\* A value stored in a metadata dict: None, a str, an int or a Path.  Every
\* value has the same three fields so that any two can be compared.
NoneV == [t |-> "none", s |-> <<>>, n |-> 0]
StrV(s) == [t |-> "str", s |-> s, n |-> 0]
IntV(n) == [t |-> "int", s |-> <<>>, n |-> n]
PathV(p) == [t |-> "path", s |-> p, n |-> 0]

\* d | {k: v}
DictSet(d, k, v) == [f \in DOMAIN d \cup {k} |-> IF f = k THEN v ELSE d[f]]

\* a del that removes nothing
DictDelNothing(d, k) == d

\* del d[k]
DictDel(d, k) == [f \in DOMAIN d \ {k} |-> d[f]]

\* exceptions: the class raised, the function raising it and its cause
NoError == [exc |-> "", at |-> "", what |-> ""]
Error(e, a, w) == [exc |-> e, at |-> a, what |-> w]

\* ------------------------------------------------------------------ parser
\* lines 176: the global scope at the start of parse_trackinfo_meta
InitialGlobalMeta == [f \in {"ALBUM", "DISCNUMBER"} |-> NoneV]

\* a location that is the global album and disc whatever the line's key
TrackLocationOfGlobals(key, value, global_meta) ==
    [err |-> NoError, album |-> global_meta["ALBUM"],
     disc |-> global_meta["DISCNUMBER"]]

\* lines 195-207: the (album, disc) a track line is filed under, or the
\* exception raised while finding it
TrackLocation(key, value, global_meta) ==
    IF key = "ALBUM"
    THEN IF "DISCNUMBER" \in DOMAIN global_meta
         THEN [err |-> NoError, album |-> StrV(value), disc |-> global_meta["DISCNUMBER"]]
         ELSE [err |-> Error("KeyError", "parse_trackinfo_meta", "DISCNUMBER"),
               album |-> NoneV, disc |-> NoneV]
    ELSE IF key = "DISCNUMBER"
    THEN IF "ALBUM" \notin DOMAIN global_meta
         THEN [err |-> Error("KeyError", "parse_trackinfo_meta", "ALBUM"),
               album |-> NoneV, disc |-> NoneV]
         ELSE IF ~isdigit(value)
         THEN [err |-> Error("ValueError", "parse_trackinfo_meta", "DISCNUMBER"),
               album |-> NoneV, disc |-> NoneV]
         ELSE [err |-> NoError, album |-> global_meta["ALBUM"], disc |-> IntV(int(value))]
    ELSE IF {"ALBUM", "DISCNUMBER"} \subseteq DOMAIN global_meta
         THEN [err |-> NoError, album |-> global_meta["ALBUM"],
               disc |-> global_meta["DISCNUMBER"]]
         ELSE [err |-> Error("KeyError", "parse_trackinfo_meta",
                             IF "ALBUM" \in DOMAIN global_meta
                             THEN "DISCNUMBER" ELSE "ALBUM"),
               album |-> NoneV, disc |-> NoneV]

\* lines 214-243: the line's key and value applied to the selected dict
SetKeyValue(dst_dict, key, value, input_map) ==
    IF Len(value) = 0 /\ key \in DOMAIN dst_dict
    THEN [err |-> NoError, dict |-> DictDel(dst_dict, key)]
    ELSE IF key = "INPUT"
    THEN LET q == resolve(PathJoin(TRACKINFO_PARENT, value))
         IN  IF q \in DOMAIN input_map
             THEN [err |-> NoError, dict |-> DictSet(dst_dict, "INPUT", PathV(input_map[q]))]
             ELSE [err |-> Error("KeyError", "parse_trackinfo_meta", "input_map"),
                   dict |-> dst_dict]
    ELSE IF key = "COVER"
    THEN LET v == Path(value)
         IN  [err |-> NoError,
              dict |-> DictSet(dst_dict, "COVER",
                  PathV(IF is_absolute(v) THEN v
                        ELSE IF "INPUT" \in DOMAIN dst_dict
                        THEN resolve(PathJoin(dst_dict["INPUT"].s, v))
                        ELSE resolve(PathJoin(TRACKINFO_PARENT, v))))]
    ELSE IF key = "DISCNUMBER"
    THEN IF ~isdigit(value)
         THEN [err |-> Error("ValueError", "parse_trackinfo_meta", "DISCNUMBER"),
               dict |-> dst_dict]
         ELSE [err |-> NoError, dict |-> DictSet(dst_dict, "DISCNUMBER", IntV(int(value)))]
    ELSE [err |-> NoError, dict |-> DictSet(dst_dict, key, StrV(value))]

\* line 210: the record a new track starts from
NewTrackRecord(global_meta, track_num) ==
    DictSet(global_meta, "TRACKNUMBER", IntV(track_num))

\* an assignment in place of setdefault: a fresh copy at every reference
SelectTrackDictRecopy(track_meta, leaf, global_meta, track_num) ==
    NewTrackRecord(global_meta, track_num)

\* lines 209-210, the setdefault chain: the record already filed under leaf,
\* or else a new one
SelectTrackDict(track_meta, leaf, global_meta, track_num) ==
    IF leaf \in DOMAIN track_meta THEN track_meta[leaf]
    ELSE NewTrackRecord(global_meta, track_num)

\* lines 180-243: one iteration of the loop over the manifest's lines.
\* track_meta maps a leaf <<album, disc, track_num>> to its record;
\* album_order lists the albums in the order the dict received them.
ParseLine(line, global_meta, track_meta, album_order, input_map) ==
    LET same == [err |-> NoError, global_meta |-> global_meta,
                 track_meta |-> track_meta, album_order |-> album_order]
        key == upper(line.key)
        value == strip(line.value)
    IN
    IF line.form = "blank" THEN same
    ELSE IF ~TRACKINFO_RE(line)
    THEN [same EXCEPT !.err = Error("ValueError", "parse_trackinfo_meta", "line")]
    ELSE IF line.idx # NoIdx
    THEN LET loc == TrackLocation(key, value, global_meta)
             leaf == <<loc.album, loc.disc, line.idx>>
             rec == SelectTrackDict(track_meta, leaf, global_meta, line.idx)
             set == SetKeyValue(rec, key, value, input_map)
         IN  IF loc.err # NoError THEN [same EXCEPT !.err = loc.err]
             ELSE [err |-> set.err,
                   global_meta |-> global_meta,
                   track_meta |-> [l \in DOMAIN track_meta \cup {leaf} |->
                                      IF l = leaf THEN set.dict ELSE track_meta[l]],
                   album_order |->
                       IF \E k \in 1..Len(album_order) : album_order[k] = loc.album
                       THEN album_order ELSE Append(album_order, loc.album)]
    ELSE LET set == SetKeyValue(global_meta, key, value, input_map)
         IN  [same EXCEPT !.err = set.err, !.global_meta = set.dict]

\* ----------------------------------------------------------- tree helpers
Albums(info) == {l[1] : l \in DOMAIN info}
Discs(info, album) == {l[2] : l \in {m \in DOMAIN info : m[1] = album}}
Tracks(info, album, disc) ==
    {l[3] : l \in {m \in DOMAIN info : m[1] = album /\ m[2] = disc}}
LeavesOf(info, album) == {l \in DOMAIN info : l[1] = album}

Max(S) == CHOOSE x \in S : \A y \in S : y <= x

\* ------------------------------------------------------ padding calculator
\* math.floor(math.log10(n)) for n >= 1 (math.log10 is exact enough for
\* every n the model's 32-bit integers hold); log10(0) raises ValueError
RECURSIVE floor_log10(_)
floor_log10(n) == IF n < 10 THEN 0 ELSE 1 + floor_log10(n \div 10)

log10_defined(n) == n >= 1

\* lines 247-260
calc_padding(info) ==
    LET numbered(album) == {d.n : d \in {e \in Discs(info, album) : e # NoneV}}
        bad == \/ \E a \in Albums(info) :
                    numbered(a) # {} /\ ~log10_defined(Max(numbered(a)))
               \/ \E l \in DOMAIN info :
                    ~log10_defined(Max(Tracks(info, l[1], l[2])))
    IN  [err |-> IF bad THEN Error("ValueError", "calc_padding", "math domain error")
                 ELSE NoError,
         disc |-> [a \in Albums(info) |->
                     IF numbered(a) # {} /\ log10_defined(Max(numbered(a)))
                     THEN floor_log10(Max(numbered(a))) + 1 ELSE 0],
         track |-> [ad \in {<<l[1], l[2]>> : l \in DOMAIN info} |->
                     IF log10_defined(Max(Tracks(info, ad[1], ad[2])))
                     THEN floor_log10(Max(Tracks(info, ad[1], ad[2]))) + 1 ELSE 0]]

\* ------------------------------------------------------------ track mapper
\* TRACK_INPUT_RE.fullmatch(name): the name ends in .flac (any case) and has
\* a digit before that; group 1 is the first maximal run of digits
RECURSIVE DigitRun(_)
DigitRun(s) == IF Len(s) > 0 /\ s[1] \in Digits THEN <<s[1]>> \o DigitRun(Tail(s))
               ELSE <<>>

RECURSIVE FirstDigits(_)
FirstDigits(s) == IF Len(s) = 0 THEN <<>>
                  ELSE IF s[1] \in Digits THEN DigitRun(s)
                  ELSE FirstDigits(Tail(s))

TRACK_INPUT_RE(nm) ==
    /\ Len(nm) >= 1
    /\ lower(nm[Len(nm)]) = ".flac"
    /\ FirstDigits(SubSeq(nm, 1, Len(nm) - 1)) # <<>>

TrackOfName(nm) == int(FirstDigits(SubSeq(nm, 1, Len(nm) - 1)))

\* lines 281-290 for one track: the exception raised or the file chosen.
\* No directory of the modelled tree holds two files for one number, so the
\* first match of the enumeration is the only one.
MapOneTrack(tags, num, extracted) ==
    IF "INPUT" \notin DOMAIN tags
    THEN [err |-> Error("KeyError", "map_tracks", "INPUT"), file |-> <<>>]
    ELSE IF NodeAt(tags["INPUT"].s, extracted) = NoNode
    THEN [err |-> Error("FileNotFoundError", "map_tracks", "iterdir"), file |-> <<>>]
    ELSE IF ~is_dir(tags["INPUT"].s, extracted)
    THEN [err |-> Error("NotADirectoryError", "map_tracks", "iterdir"), file |-> <<>>]
    ELSE LET hits == {f \in iterdir(tags["INPUT"].s, extracted) :
                         TRACK_INPUT_RE(f) /\ TrackOfName(f) = num}
         IN  IF hits = {}
             THEN [err |-> Error("FileNotFoundError", "map_tracks", "track"), file |-> <<>>]
             ELSE [err |-> NoError, file |-> CHOOSE f \in hits : TRUE]

\* lines 274-291
map_tracks(info, extracted) ==
    LET one(l) == MapOneTrack(info[l], l[3], extracted)
        failing == {l \in DOMAIN info : one(l).err # NoError}
    IN  [err |-> IF failing = {} THEN NoError
                 ELSE one(CHOOSE l \in failing : TRUE).err,
         map |-> [l \in DOMAIN info |-> one(l).file]]

\* ----------------------------------------------------------- album folders
\* lines 306-310: the directory of an album key
AlbumDir(album) ==
    IF album # NoneV THEN PathJoin(OUT_DIR, replace(album.s, Sep, "_"))
    ELSE PathJoin(OUT_DIR, UNKNOWN_ALBUM_NAME)

\* lines 304-312: mkdir for each album in the dict's order; the directories
\* made and the exception of the first mkdir that finds its target present
RECURSIVE make_album_dirs(_, _, _)
make_album_dirs(order, made, extracted) ==
    IF Len(order) = 0 THEN [err |-> NoError, made |-> made]
    ELSE LET d == AlbumDir(order[1])
         IN  IF d \in made \/ NodeAt(d, extracted) # NoNode
             THEN [err |-> Error("FileExistsError", "make_album_dirs", "mkdir"),
                   made |-> made]
             ELSE make_album_dirs(Tail(order), made \cup {d}, extracted)

\* ----------------------------------------------------- filename sanitizer
\* bytes of a token in UTF-8: the extensions are whole tokens, and so are
\* the long words w100 and w40 (of 100 and of 40 letters)
TokenBytes(tok) ==
    CASE tok = "w100" -> 100 [] tok = "w40" -> 40
      [] tok = ".flac" -> 5 [] tok = ".FLAC" -> 5 [] tok = ".zip" -> 4
      [] tok = ".ZIP" -> 4 [] tok = ".rar" -> 4 [] tok = ".7z" -> 3
      [] tok = ".jpg" -> 4 [] tok = ".tar" -> 4 [] OTHER -> 1

RECURSIVE ByteLen(_)
ByteLen(s) == IF Len(s) = 0 THEN 0 ELSE TokenBytes(s[1]) + ByteLen(Tail(s))

\* the longest prefix of s of at most n bytes
RECURSIVE TakeBytes(_, _)
TakeBytes(s, n) ==
    IF Len(s) = 0 \/ TokenBytes(s[1]) > n THEN <<>>
    ELSE <<s[1]>> \o TakeBytes(Tail(s), n - TokenBytes(s[1]))

\* lines 60-88, for a one-segment filename
truncate_filename(filename) ==
    LET ext == IF suffix(filename) = "" THEN <<>> ELSE <<suffix(filename)>>
        base == SubSeq(filename, 1, Len(filename) - Len(ext))
        max_base_bytes == max_bytes - ByteLen(ext)
    IN  IF ByteLen(base) > max_base_bytes
        THEN TakeBytes(base, max_base_bytes) \o ext
        ELSE filename

\* ---------------------------------------------------- output path generator
\* str(value) of a stored value
ToStr(v) == IF v.t = "int" THEN str(v.n) ELSE v.s

\* lines 344-360: the exception raised or the path
gen_output_path(tags, disc_padding, track_padding) ==
    IF \E k \in {"ALBUM", "DISCNUMBER", "TRACKNUMBER"} : k \notin DOMAIN tags
    THEN [err |-> Error("KeyError", "gen_output_path",
                        CHOOSE k \in {"ALBUM", "DISCNUMBER", "TRACKNUMBER"} :
                            k \notin DOMAIN tags),
          path |-> <<>>]
    ELSE
      LET album_dir == IF tags["ALBUM"] = NoneV THEN UNKNOWN_ALBUM_NAME
                       ELSE replace(tags["ALBUM"].s, Sep, "_")
          f1 == IF tags["DISCNUMBER"] # NoneV
                THEN zfill(ToStr(tags["DISCNUMBER"]), disc_padding) \o <<".">>
                ELSE <<>>
          f2 == f1 \o zfill(ToStr(tags["TRACKNUMBER"]), track_padding)
          f3 == IF "TITLE" \in DOMAIN tags /\ "ARTIST" \in DOMAIN tags
                THEN f2 \o <<".", " ">> \o tags["ARTIST"].s \o <<" ", "-", " ">>
                        \o tags["TITLE"].s
                ELSE IF "TITLE" \in DOMAIN tags
                THEN f2 \o <<".", " ">> \o tags["TITLE"].s
                ELSE IF "ARTIST" \in DOMAIN tags
                THEN f2 \o <<".", " ">> \o tags["ARTIST"].s
                ELSE f2
      IN  [err |-> NoError,
           path |-> PathJoin(PathJoin(OUT_DIR, album_dir),
                             truncate_filename(replace(f3, Sep, "_") \o <<".flac">>))]

\* ------------------------------------------------------------ cover mapper
\* lines 319-326: the covers to extract and the covers used as they are
CoversOf(info) == {info[l]["COVER"].s : l \in {m \in DOMAIN info : "COVER" \in DOMAIN info[m]}}
ExtractCoverSet(info) == {c \in CoversOf(info) : lower(suffix(c)) = ".flac"}

\* NamedTemporaryFile(dir=cover_dir): one file per extracted cover
CoverFile(c) == PathJoin(PathJoin(WORK_DIR, <<"covers">>), <<"t">> \o name(c))

\* lines 314-342: the returned dict; an extraction that fails is reported
\* and its (empty) temporary file is mapped all the same
map_covers(info) ==
    [c \in CoversOf(info) |-> IF c \in ExtractCoverSet(info) THEN CoverFile(c) ELSE c]

\* ---------------------------------------------------------------- workers
\* lines 364-380 of process_one: everything before the encoder is started.
\* track_id_to_string formats the track number with "d", which raises
\* ValueError for a str.
process_one_start(tags, cover_map, disc_padding, track_padding) ==
    LET g == gen_output_path(tags, disc_padding, track_padding)
    IN  IF g.err # NoError THEN g
        ELSE IF tags["TRACKNUMBER"].t # "int"
        THEN [err |-> Error("ValueError", "track_id_to_string", "format"), path |-> g.path]
        ELSE IF "COVER" \in DOMAIN tags /\ tags["COVER"].s \notin DOMAIN cover_map
        THEN [err |-> Error("KeyError", "process_one", "cover_map"), path |-> g.path]
        ELSE g

\* the --picture argument of the encoder, <<>> when there is none
PictureArg(tags, cover_map) ==
    IF "COVER" \in DOMAIN tags THEN cover_map[tags["COVER"].s] ELSE <<>>

\* ------------------------------------------------------------------- state
\* The manifests the model reads: every sequence of at most MaxLines lines
\* drawn from Lines.
Lines ==
    { KV("INPUT", NoIdx, <<"dir">>),
      KV("input", 10, <<"a", ".zip">>),
      KV("TITLE", 1, <<"A">>),
      KV("TITLE", NoIdx, <<"G", " ">>),
      KV("TITLE", 1, <<" ">>),
      KV("TITLE", NoIdx, <<>>),
      KV("TITLE", 0, <<"Z">>),
      KV("ALBUM", 1, <<"A", "/", "B">>),
      KV("ALBUM", 1, <<"A", "_", "B">>),
      KV("DISCNUMBER", NoIdx, <<"1">>),
      KV("DISCNUMBER", NoIdx, <<"a", "b", "c">>),
      KV("DISCNUMBER", 1, <<"a", "b", "c">>),
      KV("TRACKNUMBER", 1, <<"1", "0">>) }

Manifests == UNION {[1..n -> Lines] : n \in 0..MaxLines}

\* A second family of manifests: one of a few opening sequences (Heads)
\* followed by at most MaxExtra lines drawn from ScenarioLines.  They bring
\* in a cover, nested archives, several albums and discs, an artist, a title
\* with a separator, a title longer than the byte budget, a disc number that
\* is no number, a blank line, a line without "=" and an INPUT value with a
\* leading blank.
\* The long title is two words of 100 letters, one of 40 and 16 letters on
\* their own: 256 bytes, cut somewhere in the run of single letters.
LongTitle == <<"w100", "w100", "w40">> \o [k \in 1..16 |-> "y"]

NestedInput == <<"a", ".zip", "/", "inner", ".zip">>
CoverAudio == <<"/", "c", ".flac">>

Heads ==
    { << KV("INPUT", NoIdx, <<"dir">>) >>,
      << KV("ALBUM", NoIdx, <<"Test">>), KV("DISCNUMBER", NoIdx, <<"1">>),
         KV("INPUT", NoIdx, <<"dir">>), KV("TITLE", 1, <<"A">>),
         KV("TITLE", 2, <<"B">>) >>,
      << KV("INPUT", 1, NestedInput) >>,
      << KV("INPUT", NoIdx, <<"dir">>), KV("COVER", NoIdx, CoverAudio) >> }

ScenarioLines ==
    { KV("INPUT", 10, <<"a", ".zip">>),
      KV("INPUT", 2, NestedInput),
      KV("INPUT", NoIdx, <<" ", "dir">>),
      KV("ARTIST", 1, <<"R">>),
      KV("TITLE", 1, <<"A", "/", "B">>),
      KV("TITLE", 2, LongTitle),
      KV("ALBUM", 1, <<>>),
      KV("ALBUM", 2, <<"X">>),
      KV("DISCNUMBER", 1, <<"2">>),
      KV("DISCNUMBER", 2, <<"n", "o">>),
      JunkLine,
      BlankLine }

ScenarioManifests ==
    {h \o t : h \in Heads, t \in UNION {[1..n -> ScenarioLines] : n \in 0..MaxExtra}}

\* the worker processes of a Pool()
PoolSize == 2

VARIABLES
    manifest,       \* the lines of the trackinfo file
    pc,             \* where main() is
    error,          \* the exception that ended the run, NoError if none
    exit_status,    \* the process's exit status, -1 while it runs
    work_exists,    \* whether the TemporaryDirectory exists
    extracted,      \* the archives extracted, in order: container k holds extracted[k]
    input_map,      \* resolve_trackinfo_inputs' result
    lineno,         \* lines parse_trackinfo_meta has processed
    global_meta, track_meta, album_order,
    disc_padding, track_padding, track_map, cover_map,
    cover_failed,   \* the covers whose picture extraction failed
    made_dirs,      \* the album directories created
    tstate,         \* per track: Pending, Transcoding, Tagged, Failed, Raised
    out_path,       \* per track: the path process_one generated
    picture,        \* per track: the encoder's --picture argument
    collected,      \* albums whose map_async result process() has taken
    albums,         \* process()'s result: album -> the files produced
    nstate,         \* per album: Pending, Running, Done, Failed, Skipped
    rg_paths,       \* per album: the files passed to metaflac --add-replay-gain
    stderr          \* the ERROR lines printed: what failed, and for what

vars == <<manifest, pc, error, exit_status, work_exists, extracted, input_map,
          lineno, global_meta, track_meta, album_order, disc_padding,
          track_padding, track_map, cover_map, cover_failed, made_dirs, tstate,
          out_path, picture, collected, albums, nstate, rg_paths, stderr>>

seqVars == <<extracted, input_map, lineno, global_meta, track_meta, album_order,
             disc_padding, track_padding, track_map, cover_map, cover_failed,
             made_dirs>>
poolVars == <<tstate, out_path, picture, collected, albums, nstate, rg_paths>>

Empty == <<>>

\* main() is entered with one of the manifests ms as the trackinfo file
Start(ms) ==
    /\ manifest \in ms
    /\ pc = "resolve"
    /\ error = NoError
    /\ exit_status = 0 - 1
    /\ work_exists = TRUE
    /\ extracted = <<>>
    /\ input_map = Empty
    /\ lineno = 0
    /\ global_meta = InitialGlobalMeta
    /\ track_meta = Empty
    /\ album_order = <<>>
    /\ disc_padding = Empty
    /\ track_padding = Empty
    /\ track_map = Empty
    /\ cover_map = Empty
    /\ cover_failed = {}
    /\ made_dirs = {}
    /\ tstate = Empty
    /\ out_path = Empty
    /\ picture = Empty
    /\ collected = 0
    /\ albums = Empty
    /\ nstate = Empty
    /\ rg_paths = Empty
    /\ stderr = {}

Init == Start(Manifests)

\* an exception that leaves main() with the work directory still in place
RaiseLeavingWorkDir(e) ==
    /\ pc' = "raised"
    /\ error' = e
    /\ exit_status' = 1
    /\ work_exists' = work_exists

\* An exception leaves main(): the with block removes the work directory
\* and the interpreter exits with status 1.
Raise(e) ==
    /\ pc' = "raised"
    /\ error' = e
    /\ exit_status' = 1
    /\ work_exists' = FALSE

\* main() goes on to the next stage
Goto(stage) ==
    /\ pc' = stage
    /\ UNCHANGED <<error, exit_status, work_exists>>

\* ------------------------------------------------ main: sequential stages
\* line 456: resolve_trackinfo_inputs; any one of the extractions may fail
ResolveInputs ==
    /\ pc = "resolve"
    /\ \E failAt \in 0..Len(resolve_trackinfo_inputs(manifest, 0).st.extracted) :
         LET r == resolve_trackinfo_inputs(manifest, failAt)
         IN  /\ extracted' = r.st.extracted
             /\ IF r.st.failed
                THEN /\ Raise(Error("CalledProcessError", "expand_archive", "extractor"))
                     /\ UNCHANGED input_map
                ELSE /\ Goto("parse")
                     /\ input_map' = AsMap(r.ret)
    /\ UNCHANGED <<manifest, lineno, global_meta, track_meta, album_order,
                   disc_padding, track_padding, track_map, cover_map,
                   cover_failed, made_dirs, poolVars, stderr>>

\* a parser that reports the line's error and reads on
ParseTrackinfoLineReadOn ==
    /\ pc = "parse"
    /\ lineno < Len(manifest)
    /\ LET r == ParseLine(manifest[lineno + 1], global_meta, track_meta,
                          album_order, input_map)
       IN  /\ global_meta' = r.global_meta
           /\ track_meta' = r.track_meta
           /\ album_order' = r.album_order
           /\ lineno' = lineno + 1
           /\ Goto("parse")
    /\ UNCHANGED <<manifest, extracted, input_map, disc_padding, track_padding,
                   track_map, cover_map, cover_failed, made_dirs, poolVars, stderr>>

\* line 458, one line of the manifest
ParseTrackinfoLine ==
    /\ pc = "parse"
    /\ lineno < Len(manifest)
    /\ LET r == ParseLine(manifest[lineno + 1], global_meta, track_meta,
                          album_order, input_map)
       IN  /\ global_meta' = r.global_meta
           /\ track_meta' = r.track_meta
           /\ album_order' = r.album_order
           /\ lineno' = lineno + 1
           /\ IF r.err # NoError THEN Raise(r.err) ELSE Goto("parse")
    /\ UNCHANGED <<manifest, extracted, input_map, disc_padding, track_padding,
                   track_map, cover_map, cover_failed, made_dirs, poolVars, stderr>>

\* line 459, once the parser has returned the tree
CalcPadding ==
    /\ pc = "parse"
    /\ lineno = Len(manifest)
    /\ LET r == calc_padding(track_meta)
       IN  IF r.err # NoError
           THEN Raise(r.err) /\ UNCHANGED <<disc_padding, track_padding>>
           ELSE /\ Goto("map_tracks")
                /\ disc_padding' = r.disc
                /\ track_padding' = r.track
    /\ UNCHANGED <<manifest, extracted, input_map, lineno, global_meta,
                   track_meta, album_order, track_map, cover_map, cover_failed,
                   made_dirs, poolVars, stderr>>

\* line 461
MapTracks ==
    /\ pc = "map_tracks"
    /\ LET r == map_tracks(track_meta, extracted)
       IN  IF r.err # NoError
           THEN Raise(r.err) /\ UNCHANGED track_map
           ELSE Goto("map_covers") /\ track_map' = r.map
    /\ UNCHANGED <<manifest, extracted, input_map, lineno, global_meta,
                   track_meta, album_order, disc_padding, track_padding,
                   cover_map, cover_failed, made_dirs, poolVars, stderr>>

\* line 463: each picture extraction may fail (that of a file that is not
\* there does fail), which is only reported
MapCovers ==
    /\ pc = "map_covers"
    /\ \E failed \in SUBSET ExtractCoverSet(track_meta) :
         /\ \A c \in ExtractCoverSet(track_meta) :
               ~is_file(c, extracted) => c \in failed
         /\ cover_failed' = failed
         /\ cover_map' = map_covers(track_meta)
         /\ stderr' = stderr \cup {<<"cover", c>> : c \in failed}
    /\ Goto("make_album_dirs")
    /\ UNCHANGED <<manifest, extracted, input_map, lineno, global_meta,
                   track_meta, album_order, disc_padding, track_padding,
                   track_map, made_dirs, poolVars>>

\* line 465
MakeAlbumDirs ==
    /\ pc = "make_album_dirs"
    /\ LET r == make_album_dirs(album_order, {}, extracted)
       IN  /\ made_dirs' = r.made
           /\ IF r.err # NoError THEN Raise(r.err) ELSE Goto("process")
    /\ UNCHANGED <<manifest, extracted, input_map, lineno, global_meta,
                   track_meta, album_order, disc_padding, track_padding,
                   track_map, cover_map, cover_failed, poolVars, stderr>>

\* --------------------------------------------------------- main: phase 1
\* lines 397-407: process() hands every track of every album to the pool
Process ==
    /\ pc = "process"
    /\ tstate' = [l \in DOMAIN track_meta |-> "Pending"]
    /\ out_path' = [l \in DOMAIN track_meta |-> <<>>]
    /\ picture' = [l \in DOMAIN track_meta |-> <<>>]
    /\ collected' = 0
    /\ Goto("phase1")
    /\ UNCHANGED <<manifest, seqVars, albums, nstate, rg_paths, stderr>>

Busy == Cardinality({l \in DOMAIN tstate : tstate[l] = "Transcoding"})
        + Cardinality({a \in DOMAIN nstate : nstate[a] = "Running"})

\* lines 364-388: a worker takes a track, builds the output path and the
\* arguments and starts the encoder; an exception ends the task at once
StartTranscode(l) ==
    /\ pc = "phase1"
    /\ tstate[l] = "Pending"
    /\ Busy < PoolSize
    /\ LET r == process_one_start(track_meta[l], cover_map, disc_padding[l[1]],
                                  track_padding[<<l[1], l[2]>>])
       IN  /\ out_path' = [out_path EXCEPT ![l] = r.path]
           /\ IF r.err # NoError
              THEN tstate' = [tstate EXCEPT ![l] = "Raised"] /\ UNCHANGED picture
              ELSE /\ tstate' = [tstate EXCEPT ![l] = "Transcoding"]
                   /\ picture' = [picture EXCEPT ![l] = PictureArg(track_meta[l], cover_map)]
    /\ UNCHANGED <<manifest, pc, error, exit_status, work_exists, seqVars,
                   collected, albums, nstate, rg_paths, stderr>>

\* lines 381-392: the encoder exits with status 0 (ok) or not
FinishTranscode(l, ok) ==
    /\ pc = "phase1"
    /\ tstate[l] = "Transcoding"
    /\ tstate' = [tstate EXCEPT ![l] = IF ok THEN "Tagged" ELSE "Failed"]
    /\ stderr' = IF ok THEN stderr ELSE stderr \cup {<<"output", out_path[l]>>}
    /\ UNCHANGED <<manifest, pc, error, exit_status, work_exists, seqVars,
                   out_path, picture, collected, albums, nstate, rg_paths>>

\* a get() that does not wait for the tasks still running
FinishedNoWait(l) == tstate[l] # "Pending"

\* files.get() returns only when every task of the album has ended
Finished(l) == tstate[l] \in {"Tagged", "Failed", "Raised"}

\* the workers' results without the filter
TaggedFilesUnfiltered(album) ==
    {out_path[l] : l \in LeavesOf(track_meta, album)}

\* line 409, list(filter(None, files.get())): the paths the album's workers
\* returned, without the None of a failed encode
TaggedFiles(album) ==
    {out_path[l] : l \in {m \in LeavesOf(track_meta, album) : tstate[m] = "Tagged"}}

\* lines 408-409: files.get() for the next album returns once all its tasks
\* have ended; it re-raises a task's exception, and the pool is torn down
CollectAlbum ==
    /\ pc = "phase1"
    /\ collected < Len(album_order)
    /\ LET album == album_order[collected + 1]
       IN  /\ \A l \in LeavesOf(track_meta, album) : Finished(l)
           /\ IF \E l \in LeavesOf(track_meta, album) : tstate[l] = "Raised"
              THEN /\ Raise(Error("RemoteError", "process", "files.get"))
                   /\ UNCHANGED <<albums, collected>>
              ELSE /\ albums' = DictSet(albums, album, TaggedFiles(album))
                   /\ collected' = collected + 1
                   /\ Goto("phase1")
    /\ UNCHANGED <<manifest, seqVars, tstate, out_path, picture, nstate, rg_paths,
                   stderr>>

\* --------------------------------------------------------- main: phase 2
\* line 410 and lines 436-437: process() returns and add_replaygain hands
\* every album of the result to a new pool
AddReplaygain ==
    /\ pc = "phase1"
    /\ collected = Len(album_order)
    /\ nstate' = [a \in DOMAIN albums |-> "Pending"]
    /\ rg_paths' = [a \in DOMAIN albums |-> {}]
    /\ Goto("phase2")
    /\ UNCHANGED <<manifest, seqVars, tstate, out_path, picture, collected, albums,
                   stderr>>

\* a task that starts metaflac whether the album has files or not
StartNormalizeAlways(a) ==
    /\ pc = "phase2"
    /\ nstate[a] = "Pending"
    /\ Busy < PoolSize
    /\ nstate' = [nstate EXCEPT ![a] = "Running"]
    /\ rg_paths' = [rg_paths EXCEPT ![a] = albums[a]]
    /\ UNCHANGED <<manifest, pc, error, exit_status, work_exists, seqVars,
                   tstate, out_path, picture, collected, albums, stderr>>

\* lines 414-426: metaflac is started for an album that has files; an
\* album without files gets a warning and its task is over
StartNormalize(a) ==
    /\ pc = "phase2"
    /\ nstate[a] = "Pending"
    /\ Busy < PoolSize
    /\ IF albums[a] # {}
       THEN /\ nstate' = [nstate EXCEPT ![a] = "Running"]
            /\ rg_paths' = [rg_paths EXCEPT ![a] = albums[a]]
       ELSE /\ nstate' = [nstate EXCEPT ![a] = "Skipped"]
            /\ UNCHANGED rg_paths
    /\ UNCHANGED <<manifest, pc, error, exit_status, work_exists, seqVars,
                   tstate, out_path, picture, collected, albums, stderr>>

\* lines 420-428: metaflac exits with status 0 (ok) or not
FinishNormalize(a, ok) ==
    /\ pc = "phase2"
    /\ nstate[a] = "Running"
    /\ nstate' = [nstate EXCEPT ![a] = IF ok THEN "Done" ELSE "Failed"]
    /\ stderr' = IF ok THEN stderr ELSE stderr \cup {<<"replaygain", ToStr(a)>>}
    /\ UNCHANGED <<manifest, pc, error, exit_status, work_exists, seqVars,
                   tstate, out_path, picture, collected, albums, rg_paths>>

\* lines 467-470: pool.map returns, main() returns None, the work directory
\* is removed and sys.exit(None) ends the process with status 0
MainReturn ==
    /\ pc = "phase2"
    /\ \A a \in DOMAIN nstate : nstate[a] \in {"Done", "Failed", "Skipped"}
    /\ pc' = "done"
    /\ exit_status' = 0
    /\ work_exists' = FALSE
    /\ UNCHANGED <<manifest, error, seqVars, poolVars, stderr>>

Next ==
    \/ ResolveInputs
    \/ ParseTrackinfoLine
    \/ CalcPadding
    \/ MapTracks
    \/ MapCovers
    \/ MakeAlbumDirs
    \/ Process
    \/ \E l \in DOMAIN tstate : StartTranscode(l)
    \/ \E l \in DOMAIN tstate : \E ok \in BOOLEAN : FinishTranscode(l, ok)
    \/ CollectAlbum
    \/ AddReplaygain
    \/ \E a \in DOMAIN nstate : StartNormalize(a)
    \/ \E a \in DOMAIN nstate : \E ok \in BOOLEAN : FinishNormalize(a, ok)
    \/ MainReturn

Spec == Init /\ [][Next]_vars

\* the same program started on the scenario manifests
InitScenario == Start(ScenarioManifests)
ScenarioSpec == InitScenario /\ [][Next]_vars

\* ================================================================== claims
Invoked(a) == nstate[a] \in {"Running", "Done", "Failed"}
Terminated == pc \in {"done", "raised"}

\* C1. Phase barrier: while the loudness normalization of any album has
\* been invoked, every track of every album has finished its transcode, as
\* Tagged or as Failed.
C1_PhaseBarrier ==
    (\E a \in DOMAIN nstate : Invoked(a)) =>
        /\ DOMAIN tstate = DOMAIN track_meta
        /\ \A l \in DOMAIN tstate : tstate[l] \in {"Tagged", "Failed"}

\* two albums, one of them being normalized while a track of the other one
\* has failed
C1_Witness ==
    \E a \in DOMAIN nstate : \E l \in DOMAIN tstate :
        /\ nstate[a] = "Running"
        /\ l[1] # a
        /\ tstate[l] = "Failed"

\* C2. Per-track failure isolation: the step in which an encode exits
\* non-zero marks that track Failed, reports its output path and changes
\* nothing else (the run goes on, the other tracks keep their state and can
\* still end Tagged); a Tagged track stays Tagged; and the files passed to
\* an album's normalization are exactly the output paths of its Tagged tracks.
C2_StateOk ==
    /\ \A a \in DOMAIN albums :
          albums[a] = {out_path[l] : l \in {m \in LeavesOf(tstate, a) : tstate[m] = "Tagged"}}
    /\ \A a \in DOMAIN nstate :
          Invoked(a) =>
            /\ rg_paths[a] = {out_path[l] : l \in {m \in LeavesOf(tstate, a) : tstate[m] = "Tagged"}}
            /\ \A l \in DOMAIN tstate : tstate[l] = "Failed" => out_path[l] \notin rg_paths[a]
    /\ \A l \in DOMAIN tstate : tstate[l] = "Failed" => <<"output", out_path[l]>> \in stderr
    /\ \A m \in DOMAIN tstate :
          (tstate[m] = "Transcoding" /\ \A l \in DOMAIN tstate : tstate[l] # "Raised")
              => ENABLED FinishTranscode(m, TRUE)

C2_StepOk ==
    \A l \in DOMAIN tstate :
        /\ (tstate[l] = "Transcoding" /\ tstate'[l] = "Failed") =>
              /\ pc' = pc /\ error' = NoError /\ exit_status' = exit_status
              /\ \A m \in DOMAIN tstate \ {l} : tstate'[m] = tstate[m]
        /\ (tstate[l] = "Tagged" => tstate'[l] = "Tagged")

C2_FailureIsolation == [](C2_StateOk) /\ [][C2_StepOk]_vars

\* one track Failed, its sibling in the same album Tagged, and the album
\* normalized over the sibling's file alone
C2_Witness ==
    \E l \in DOMAIN tstate : \E m \in DOMAIN tstate :
        /\ l # m /\ l[1] = m[1]
        /\ tstate[l] = "Failed" /\ tstate[m] = "Tagged"
        /\ l[1] \in DOMAIN nstate
        /\ nstate[l[1]] = "Done"
        /\ rg_paths[l[1]] = {out_path[m]}
        /\ pc = "done"

\* C3. The exit status is 0 exactly when every track was Tagged and no
\* album's normalization failed.
C3_ExitStatusReflectsFailures ==
    Terminated =>
        (exit_status = 0 <=>
            /\ pc = "done"
            /\ \A l \in DOMAIN tstate : tstate[l] = "Tagged"
            /\ \A a \in DOMAIN nstate : nstate[a] # "Failed")

\* the parser has returned the tree (it raised nothing)
ParserReturned ==
    /\ pc # "resolve"
    /\ lineno = Len(manifest)
    /\ error.at \notin {"expand_archive", "parse_trackinfo_meta"}

\* C4. TrackInfoTree invariant: in the tree the parser returns, every track
\* record has a resolved INPUT directory and a TRACKNUMBER equal to the
\* integer track key it is filed under.
C4_TreeInvariant ==
    ParserReturned =>
        \A l \in DOMAIN track_meta :
            /\ "INPUT" \in DOMAIN track_meta[l]
            /\ track_meta[l]["INPUT"].t = "path"
            /\ "TRACKNUMBER" \in DOMAIN track_meta[l]
            /\ track_meta[l]["TRACKNUMBER"] = IntV(l[3])

\* the line a parser step reads, its key and its stripped value
StepLine == manifest[lineno + 1]
StepKey == upper(StepLine.key)
StepValue == strip(StepLine.value)
\* a parser step that raised nothing
ParseStep == pc = "parse" /\ lineno' = lineno + 1 /\ pc' = "parse"
\* the leaf a track line is filed under
StepLeaf ==
    LET loc == TrackLocation(StepKey, StepValue, global_meta)
    IN  <<loc.album, loc.disc, StepLine.idx>>

\* C5. Inheritance by value at declaration time: a line of global scope
\* changes no track record; a track line changes no field of an existing
\* record other than the field it names, and changes no record but its own;
\* a record is created only by a track line, for that line's leaf, as a copy
\* of the global scope of that moment with TRACKNUMBER and the line's field
\* set.
C5_StepOk ==
    ParseStep =>
        /\ (StepLine.idx = NoIdx => track_meta' = track_meta)
        /\ \A l \in DOMAIN track_meta :
              /\ l \in DOMAIN track_meta'
              /\ \A f \in (DOMAIN track_meta[l] \cup DOMAIN track_meta'[l]) \ {StepKey} :
                    /\ f \in DOMAIN track_meta[l]
                    /\ f \in DOMAIN track_meta'[l]
                    /\ track_meta'[l][f] = track_meta[l][f]
              /\ (track_meta'[l] # track_meta[l] => l = StepLeaf)
        /\ \A l \in DOMAIN track_meta' \ DOMAIN track_meta :
              /\ StepLine.idx # NoIdx
              /\ l = StepLeaf
              /\ DOMAIN track_meta'[l] \ {StepKey} =
                    (DOMAIN global_meta \cup {"TRACKNUMBER"}) \ {StepKey}
              /\ \A f \in DOMAIN global_meta \ {StepKey, "TRACKNUMBER"} :
                    track_meta'[l][f] = global_meta[f]
              /\ StepKey # "TRACKNUMBER" =>
                    track_meta'[l]["TRACKNUMBER"] = IntV(StepLine.idx)

C5_InheritByValue == [][C5_StepOk]_vars

\* a global TITLE line has just been read, after which a record declared
\* earlier holds a TITLE other than the global one
C5_Witness ==
    /\ pc = "parse"
    /\ lineno >= 2
    /\ manifest[lineno].idx = NoIdx
    /\ upper(manifest[lineno].key) = "TITLE"
    /\ "TITLE" \in DOMAIN global_meta
    /\ \E l \in DOMAIN track_meta :
          /\ "TITLE" \in DOMAIN track_meta[l]
          /\ track_meta[l]["TITLE"] # global_meta["TITLE"]

\* C6. An empty value always deletes: once a line with an empty value for F
\* has been processed, the targeted record does not contain F, and no record
\* holds the empty string.
C6_EmptyValueDeletes ==
    /\ \A f \in DOMAIN global_meta : global_meta[f] # StrV(<<>>)
    /\ \A l \in DOMAIN track_meta :
          \A f \in DOMAIN track_meta[l] : track_meta[l][f] # StrV(<<>>)
    /\ (/\ pc = "parse"
        /\ lineno >= 1
        /\ manifest[lineno].form = "kv"
        /\ strip(manifest[lineno].value) = <<>>)
       => LET key == upper(manifest[lineno].key)
              loc == TrackLocation(key, <<>>, global_meta)
          IN  IF manifest[lineno].idx = NoIdx
              THEN key \notin DOMAIN global_meta
              ELSE key \notin DOMAIN track_meta[<<loc.album, loc.disc, manifest[lineno].idx>>]

\* a track line with an empty value, read without an error
EmptyTrackStep == ParseStep /\ StepLine.idx # NoIdx /\ StepValue = <<>>

\* C7 as stated: a track-scoped empty assignment of F leaves the global F
\* unchanged, and the track then reads the F of the global scope (where the
\* global scope holds a value for F, not the empty string).
C7_OriginalStepOk ==
    EmptyTrackStep =>
        /\ global_meta' = global_meta
        /\ (StepKey \in DOMAIN global_meta /\ global_meta[StepKey] # StrV(<<>>)) =>
              /\ StepKey \in DOMAIN track_meta'[StepLeaf]
              /\ track_meta'[StepLeaf][StepKey] = global_meta[StepKey]

C7_AmendedStepOk ==
    EmptyTrackStep =>
        /\ global_meta' = global_meta
        /\ (IF StepLeaf \in DOMAIN track_meta
            THEN StepKey \in DOMAIN track_meta[StepLeaf]
            ELSE StepKey \in DOMAIN global_meta \cup {"TRACKNUMBER"})
           => StepKey \notin DOMAIN track_meta'[StepLeaf]

BadDisc(k) ==
    /\ manifest[k].form = "kv"
    /\ upper(manifest[k].key) = "DISCNUMBER"
    /\ strip(manifest[k].value) # <<>>
    /\ ~isdigit(strip(manifest[k].value))

\* C8 as stated: a DISCNUMBER that is not a number is fatal at its line, and
\* no archive has been extracted when the error is raised.
C8_BadDiscBeforeResolving ==
    \A k \in 1..lineno :
        BadDisc(k) =>
            /\ k = lineno
            /\ pc = "raised"
            /\ error.exc = "ValueError"
            /\ extracted = <<>>

\* C8 as amended: a DISCNUMBER that is not a number is fatal at its line,
\* in the parser, which runs after input resolution: the inputs have been
\* resolved (archives extracted), and no later stage has started.
C8_BadDiscFatalInParser ==
    \A k \in 1..lineno :
        BadDisc(k) =>
            /\ k = lineno
            /\ pc = "raised"
            /\ exit_status = 1
            /\ error.at = "parse_trackinfo_meta"
            /\ error.exc \in {"ValueError", "KeyError"}
            /\ input_map = AsMap(resolve_trackinfo_inputs(manifest, 0).ret)
            /\ extracted = resolve_trackinfo_inputs(manifest, 0).st.extracted
            /\ disc_padding = Empty /\ track_map = Empty /\ made_dirs = {}
            /\ tstate = Empty /\ nstate = Empty

\* the run has died of a track line's DISCNUMBER after extracting an archive
C8_Witness ==
    /\ pc = "raised"
    /\ lineno >= 1
    /\ BadDisc(lineno)
    /\ manifest[lineno].idx # NoIdx
    /\ error = Error("ValueError", "parse_trackinfo_meta", "DISCNUMBER")
    /\ extracted # <<>>

\* C9. Output paths are disjoint: no two tracks are given the same output
\* path by the output path generator.
C9_DisjointOutputPaths ==
    \A l \in DOMAIN out_path : \A m \in DOMAIN out_path :
        (l # m /\ out_path[l] # <<>>) => out_path[l] # out_path[m]

\* the number of decimal digits of n >= 0
DigitCount(n) == Len(str(n))

\* C10. Padding widths: for every tree the parser returns (track and disc
\* numbers 0 included), the padding calculator yields, per album, the digit
\* count of its largest disc number (0 without numbered discs) and, per
\* disc, the digit count of its largest track number.
C10_PaddingWidths ==
    ParserReturned =>
        /\ error.at # "calc_padding"
        /\ pc # "parse" =>
            /\ \A a \in Albums(track_meta) :
                  LET ds == {d.n : d \in {e \in Discs(track_meta, a) : e # NoneV}}
                  IN  disc_padding[a] = IF ds = {} THEN 0 ELSE DigitCount(Max(ds))
            /\ \A l \in DOMAIN track_meta :
                  track_padding[<<l[1], l[2]>>] =
                      DigitCount(Max(Tracks(track_meta, l[1], l[2])))

\* the track's encoder has been started
Encoding(l) == tstate[l] \in {"Transcoding", "Tagged", "Failed"}

\* C11. Cover-extraction failure is "omit and continue": a failed picture
\* extraction is reported and is not fatal, and the encoder of a track that
\* declares the failed cover is started without a picture argument.
C11_FailedCoverOmitted ==
    /\ \A c \in cover_failed : <<"cover", c>> \in stderr
    /\ error.at # "map_covers"
    /\ \A l \in DOMAIN tstate :
          (/\ Encoding(l)
           /\ "COVER" \in DOMAIN track_meta[l]
           /\ track_meta[l]["COVER"].s \in cover_failed)
          => picture[l] = <<>>

\* path p lies inside directory d
Under(p, d) == Len(p) > Len(d) + 1 /\ SubSeq(p, 1, Len(d) + 1) = d \o <<Sep>>

\* the extraction directories and the extracted cover files of the run
TempObjects ==
    {PathJoin(WORK_DIR, ContainerName(k)) : k \in 1..Len(extracted)}
    \cup {cover_map[c] : c \in ExtractCoverSet(track_meta) \cap DOMAIN cover_map}

\* C12. Temporary directories are reclaimed on every exit path: in every
\* terminal state (success, failed tracks or albums, or an exception of any
\* stage) the work directory is gone, and every extraction directory and
\* every extracted cover file of the run was inside it.
C12_WorkDirReclaimed ==
    /\ \A p \in TempObjects : Under(p, WORK_DIR)
    /\ Terminated => ~work_exists
    /\ ~Terminated => work_exists

\* the run has died in make_album_dirs after an archive was extracted and a
\* cover picture was written to the work directory
C12_Witness ==
    /\ pc = "raised"
    /\ error.at = "make_album_dirs"
    /\ extracted # <<>>
    /\ \E c \in DOMAIN cover_map : cover_map[c] # c
    /\ ~work_exists

\* line k names an input that the input-collection pass did not resolve
UnresolvedInput(k) ==
    /\ manifest[k].form = "kv"
    /\ upper(manifest[k].key) = "INPUT"
    /\ strip(manifest[k].value) # <<>>
    /\ resolve(PathJoin(TRACKINFO_PARENT, strip(manifest[k].value)))
          \notin trackinfo_inputs(manifest)

\* the manifest holds a line that is fatal to the parser
HasFatalLine ==
    \E k \in 1..Len(manifest) :
        manifest[k].form = "junk" \/ BadDisc(k) \/ UnresolvedInput(k)

\* the run has died in one of the sequential stages
SequentialError ==
    error.at \in {"expand_archive", "parse_trackinfo_meta", "calc_padding",
                  "map_tracks", "make_album_dirs"}

\* C13. A fatal error of the sequential phase aborts the run before any
\* concurrent work: in a run whose manifest holds a malformed line, an
\* invalid disc number or an unresolved INPUT, and in a run that has died of
\* an archive extraction or of a track without a source file, no track was
\* ever handed to a worker and no normalization was ever started.
C13_FatalBeforeConcurrentWork ==
    \/ /\ tstate = Empty
       /\ nstate = Empty
       /\ pc \notin {"process", "phase1", "phase2", "done"}
    \/ ~(SequentialError \/ HasFatalLine)

\* the run has died of a malformed line after the archives of its inputs
\* were extracted
C13_Witness ==
    /\ pc = "raised"
    /\ error = Error("ValueError", "parse_trackinfo_meta", "line")
    /\ manifest[lineno].form = "junk"
    /\ Len(extracted) = 2
    /\ tstate = Empty

\* ---- the resolution of one declared path, followed segment by segment
\* the input-collection pass has just returned its map (no later step
\* changes the map or extracts an archive)
Resolved == pc = "parse" /\ lineno = 0

\* the extraction directory of archive file n, and what stands for the
\* archive once it is extracted: the directory, or its only entry when that
\* is a directory
ContainerOf(n) ==
    PathJoin(WORK_DIR, ContainerName(CHOOSE k \in 1..Len(extracted) : extracted[k] = n))

EffectiveRoot(n) ==
    LET c == ContainerOf(n)
        entries == iterdir(c, extracted)
    IN  IF Cardinality(entries) = 1
           /\ \A f \in entries : is_dir(PathJoin(c, f), extracted)
        THEN PathJoin(c, CHOOSE f \in entries : TRUE)
        ELSE c

IsArchiveFile(q) == is_file(q, extracted) /\ lower(suffix(q)) \in ARCHIVE_EXTS

\* Follow(cur, segs, seen): from location cur along the segments segs; seen
\* lists the archive files met so far, the innermost last.  ok is FALSE
\* when an archive on the way was not extracted.
RECURSIVE Follow(_, _, _)
Follow(cur, segs, seen) ==
    IF Len(segs) = 0 THEN [loc |-> cur, seen |-> seen, ok |-> TRUE]
    ELSE LET nxt == PathJoin(cur, segs[1])
         IN  IF ~IsArchiveFile(nxt) THEN Follow(nxt, Tail(segs), seen)
             ELSE IF \A k \in 1..Len(extracted) : extracted[k] # NodeAt(nxt, extracted)
             THEN [loc |-> nxt, seen |-> seen, ok |-> FALSE]
             ELSE Follow(EffectiveRoot(NodeAt(nxt, extracted)), Tail(segs),
                         Append(seen, NodeAt(nxt, extracted)))

FollowDeclared(q) == Follow(<<Sep>>, Tail(parts(q)), <<>>)

\* the archive files on the declared paths of the manifest
ArchivesOnPaths ==
    UNION {{FollowDeclared(q).seen[k] : k \in 1..Len(FollowDeclared(q).seen)} :
              q \in trackinfo_inputs(manifest)}

C15_NestedResolution ==
    Resolved =>
        /\ DOMAIN input_map = trackinfo_inputs(manifest)
        /\ \A q \in DOMAIN input_map :
              /\ FollowDeclared(q).ok
              /\ input_map[q] = FollowDeclared(q).loc

\* the archive inside the directory inside a.zip: both were extracted, the
\* outer one stands for its directory "in", and the path is mapped to the
\* inner archive's extraction directory
C15_Witness ==
    /\ Resolved
    /\ extracted = <<"f_azip", "f_inner">>
    /\ EffectiveRoot("f_azip") = PathJoin(ContainerOf("f_azip"), <<"in">>)
    /\ PathJoin(<<Sep>>, NestedInput) \in DOMAIN input_map
    /\ input_map[PathJoin(<<Sep>>, NestedInput)] = ContainerOf("f_inner")
    /\ EffectiveRoot("f_inner") = ContainerOf("f_inner")

\* ---- the output name written out from its description
\* s with zeros put before it up to width w
Pad(s, w) == [k \in 1..(IF w > Len(s) THEN w - Len(s) ELSE 0) |-> "0"] \o s

\* the widths of an album's discs and of a disc's tracks
DiscWidth(a) ==
    LET ds == {d.n : d \in {e \in Discs(track_meta, a) : e # NoneV}}
    IN  IF ds = {} THEN 0 ELSE DigitCount(Max(ds))
TrackWidth(a, d) == DigitCount(Max(Tracks(track_meta, a, d)))

\* "<d>.<t>" and what follows it, for the track filed under leaf l
NumberPart(l) ==
    (IF l[2] = NoneV THEN <<>> ELSE Pad(str(l[2].n), DiscWidth(l[1])) \o <<".">>)
    \o Pad(str(l[3]), TrackWidth(l[1], l[2]))

TitlePart(l) ==
    LET tags == track_meta[l]
        hasT == "TITLE" \in DOMAIN tags
        hasA == "ARTIST" \in DOMAIN tags
    IN  IF hasT /\ hasA
        THEN <<".", " ">> \o tags["ARTIST"].s \o <<" ", "-", " ">> \o tags["TITLE"].s
        ELSE IF hasT THEN <<".", " ">> \o tags["TITLE"].s
        ELSE IF hasA THEN <<".", " ">> \o tags["ARTIST"].s
        ELSE <<>>

AlbumPart(l) ==
    IF l[1] = NoneV THEN UNKNOWN_ALBUM_NAME
    ELSE [k \in 1..Len(l[1].s) |-> IF l[1].s[k] = Sep THEN "_" ELSE l[1].s[k]]

\* the longest beginning of s of at most n bytes
Cut(s, n) ==
    IF ByteLen(s) <= n THEN s
    ELSE SubSeq(s, 1, Max({k \in 0..Len(s) : ByteLen(SubSeq(s, 1, k)) <= n}))

\* the manifest of the first scenario and the leaves of its two tracks
Scenario1 ==
    << KV("ALBUM", NoIdx, <<"Test">>), KV("DISCNUMBER", NoIdx, <<"1">>),
       KV("INPUT", NoIdx, <<"dir">>), KV("TITLE", 1, <<"A">>),
       KV("TITLE", 2, <<"B">>) >>
Scenario1Leaf(t) == <<StrV(<<"Test">>), IntV(1), t>>

Scenario1Names ==
    (manifest = Scenario1 /\ pc \in {"phase2", "done"}) =>
        /\ track_padding[<<StrV(<<"Test">>), IntV(1)>>] = 1
        /\ out_path[Scenario1Leaf(1)] =
              <<"/", "out", "/", "Test", "/", "1", ".", "1", ".", " ", "A", ".flac">>
        /\ out_path[Scenario1Leaf(2)] =
              <<"/", "out", "/", "Test", "/", "1", ".", "2", ".", " ", "B", ".flac">>

\* C16 as stated: the destination of a track with album A, disc d and track
\* number t is <output root>/<A with "/" replaced by "_">/<d padded>.<t
\* padded>, then ". ARTIST - TITLE", or ". " and the one of the two that is
\* present, or nothing, then ".flac"; and the first scenario gives width 1
\* and the files Test/1.1. A.flac and Test/1.2. B.flac.
C16_OutputNaming ==
    /\ \A l \in DOMAIN tstate :
          (Encoding(l) /\ l[1] # NoneV /\ l[2] # NoneV) =>
              out_path[l] = OUT_DIR \o <<Sep>> \o AlbumPart(l) \o <<Sep>>
                              \o NumberPart(l) \o TitlePart(l) \o <<".flac">>
    /\ Scenario1Names

\* C16 as amended: in the name every "/" of the artist and of the title is
\* replaced by "_", and the part before ".flac" is cut to the byte budget
\* less the extension (250 bytes); a track without an album goes to
\* UnknownAlbum and a track without a disc has no "<d>." part.  This is the
\* destination of every track whose encoder is started.
C16_OutputNamingSanitized ==
    /\ \A l \in DOMAIN tstate :
          Encoding(l) =>
              LET stem == NumberPart(l) \o TitlePart(l)
                  clean == [k \in 1..Len(stem) |->
                              IF stem[k] = Sep THEN "_" ELSE stem[k]]
              IN  out_path[l] =
                      OUT_DIR \o <<Sep>> \o AlbumPart(l) \o <<Sep>>
                      \o Cut(clean, max_bytes - ByteLen(<<".flac">>))
                      \o <<".flac">>
    /\ Scenario1Names

\* the first scenario with a third track, number 10, and the title A/B for
\* track 1: width 2, and track 1 is encoded to Test/1.01. A_B.flac
C16_Witness ==
    /\ Len(manifest) = 7
    /\ SubSeq(manifest, 1, 5) = Scenario1
    /\ pc = "done"
    /\ track_padding[<<StrV(<<"Test">>), IntV(1)>>] = 2
    /\ tstate[Scenario1Leaf(1)] = "Tagged"
    /\ out_path[Scenario1Leaf(1)] =
          <<"/", "out", "/", "Test", "/", "1", ".", "0", "1", ".", " ",
            "A", "_", "B", ".flac">>

\* the leaf a track line is to be filed under: the global album and disc
\* in force, but the line's own value when its key is ALBUM or DISCNUMBER
FiledUnder ==
    << IF StepKey = "ALBUM" THEN StrV(StepValue) ELSE global_meta["ALBUM"],
       IF StepKey = "DISCNUMBER" THEN IntV(int(StepValue))
       ELSE global_meta["DISCNUMBER"],
       StepLine.idx >>

\* C17. Running album and disc: a track line read without an error files
\* its track under the global ALBUM and DISCNUMBER in force at that line,
\* or under the album (the disc) the line gives when its key is ALBUM
\* (DISCNUMBER); no other leaf appears or changes; and the global scope,
\* ALBUM and DISCNUMBER included, stays as it was, so that later track
\* lines are still filed under the global values.
C17_StepOk ==
    (ParseStep /\ StepLine.form = "kv" /\ StepLine.idx # NoIdx) =>
        /\ global_meta' = global_meta
        /\ FiledUnder \in DOMAIN track_meta'
        /\ DOMAIN track_meta' = DOMAIN track_meta \cup {FiledUnder}
        /\ \A l \in DOMAIN track_meta : l # FiledUnder => track_meta'[l] = track_meta[l]

C17_RunningAlbumDisc == [][C17_StepOk]_vars

\* after ALBUM=Test and DISCNUMBER=1, the line ALBUM[2]=X has filed track 2
\* under album X, and the next line, INPUT[10]=a.zip, has filed track 10
\* under Test, disc 1
C17_Witness ==
    /\ pc = "parse"
    /\ lineno = 7
    /\ SubSeq(manifest, 1, 5) = Scenario1
    /\ manifest[6] = KV("ALBUM", 2, <<"X">>)
    /\ manifest[7] = KV("INPUT", 10, <<"a", ".zip">>)
    /\ <<StrV(<<"X">>), IntV(1), 2>> \in DOMAIN track_meta
    /\ <<StrV(<<"Test">>), IntV(1), 10>> \in DOMAIN track_meta
    /\ global_meta["ALBUM"] = StrV(<<"Test">>)

\* the album has at least one Tagged track
HasTagged(a) == \E l \in LeavesOf(tstate, a) : tstate[l] = "Tagged"

\* C18. Phase 2 per album: the normalization tool is invoked at most once
\* per album (an album's task is started once, from Pending, and once over
\* it stays over); it is never invoked for an album without Tagged tracks,
\* which is skipped; a non-zero exit of the tool for an album is reported,
\* changes no other album's task and does not end the run, so that when the
\* run is over the tool has been invoked for every album with Tagged tracks.
C18_StateOk ==
    /\ \A a \in DOMAIN nstate :
          /\ Invoked(a) => HasTagged(a)
          /\ nstate[a] = "Skipped" => ~HasTagged(a)
          /\ nstate[a] = "Failed" =>
                /\ <<"replaygain", ToStr(a)>> \in stderr
                /\ pc \in {"phase2", "done"}
                /\ error = NoError
    /\ pc = "done" =>
          \A a \in Albums(track_meta) :
              /\ a \in DOMAIN nstate
              /\ HasTagged(a) => nstate[a] \in {"Done", "Failed"}

C18_StepOk ==
    \A a \in DOMAIN nstate :
        /\ a \in DOMAIN nstate'
        /\ nstate'[a] # nstate[a] =>
              /\ <<nstate[a], nstate'[a]>> \in
                    {<<"Pending", "Running">>, <<"Pending", "Skipped">>,
                     <<"Running", "Done">>, <<"Running", "Failed">>}
              /\ \A b \in DOMAIN nstate \ {a} : nstate'[b] = nstate[b]
              /\ pc' = pc

C18_PerAlbumNormalization == [](C18_StateOk) /\ [][C18_StepOk]_vars

\* the run is over: the tool failed for one album and was run to the end
\* for another one
C18_Witness ==
    /\ pc = "done"
    /\ \E a \in DOMAIN nstate : \E b \in DOMAIN nstate :
          /\ nstate[a] = "Failed"
          /\ nstate[b] = "Done"
          /\ <<"replaygain", ToStr(a)>> \in stderr

\* C19. Per-track state machine and termination: a track is Pending, then
\* Transcoding, then Tagged or Failed, and in no other state; it goes from
\* state to state along these arrows only, so that it is transcoded once
\* and never leaves Tagged or Failed; and once the tracks have been handed
\* to the workers the run does not die: it goes on to phase 2 and its end.
C19_StateOk ==
    /\ \A l \in DOMAIN tstate :
          tstate[l] \in {"Pending", "Transcoding", "Tagged", "Failed"}
    /\ tstate # Empty => pc \in {"phase1", "phase2", "done"}

C19_StepOk ==
    \A l \in DOMAIN tstate :
        /\ l \in DOMAIN tstate'
        /\ tstate'[l] # tstate[l] =>
              <<tstate[l], tstate'[l]>> \in
                  {<<"Pending", "Transcoding">>, <<"Transcoding", "Tagged">>,
                   <<"Transcoding", "Failed">>}

C19_TrackLifecycle == [](C19_StateOk) /\ [][C19_StepOk]_vars

\* C20. Record/key consistency: as long as the parser has accepted every
\* line it has read, every track record holds an ALBUM field equal to the
\* album key and a DISCNUMBER field equal to the disc key it is filed under
\* (None included).
C20_RecordMatchesKeys ==
    (pc # "resolve" /\ error.at # "parse_trackinfo_meta") =>
        \A l \in DOMAIN track_meta :
            /\ "ALBUM" \in DOMAIN track_meta[l]
            /\ track_meta[l]["ALBUM"] = l[1]
            /\ "DISCNUMBER" \in DOMAIN track_meta[l]
            /\ track_meta[l]["DISCNUMBER"] = l[2]

\* line k is an INPUT line that the parser has read and whose value it
\* looks up in the map
LooksUpInput(k) ==
    /\ k <= lineno
    /\ INPUT_TRACKINFO_RE(manifest[k])
    /\ strip(manifest[k].value) # <<>>

\* the key the input-collection pass makes of line k, and the key the
\* parser looks up for it
CollectedKey(k) ==
    LET p == Path(rstrip(manifest[k].value))
    IN  resolve(IF is_absolute(p) THEN p ELSE PathJoin(TRACKINFO_PARENT, p))
LookupKey(k) == resolve(PathJoin(TRACKINFO_PARENT, strip(manifest[k].value)))

\* C21. Two-pass agreement on inputs: the parser never misses the map on an
\* INPUT line, and the key it looks up for an INPUT line is the key that
\* the input-collection pass made of that same line, whatever white space
\* surrounds the value and whether the path is absolute or relative.
C21_TwoPassAgreement ==
    /\ error # Error("KeyError", "parse_trackinfo_meta", "input_map")
    /\ \A k \in 1..Len(manifest) :
          LooksUpInput(k) => LookupKey(k) = CollectedKey(k)

====
